---- MODULE Spec2Model ----
(***************************************************************************)
(* Model of core/collection/rollingwindow.go: a RollingWindow of `size`    *)
(* buckets of width `interval`, written by Add and read by Reduce under a  *)
(* sync.RWMutex.  Time is the integer value timex.Now() returns; a bucket  *)
(* is a record [Sum, Count]; the values added are small integers, which    *)
(* float64 represents exactly.                                             *)
(***************************************************************************)
EXTENDS Integers, Sequences, FiniteSets, Bags, TLC

\* ---------------------------------------------------------------- bounds
MaxTime == 6        \* the clock takes the values 0..MaxTime
MaxSize == 2        \* the constructor is called with size in 0..MaxSize
MaxAdds == 2        \* at most MaxAdds calls of Add in one behaviour

Procs == {1, 2, 3}  \* the callers; Spec and SpecMono run caller 1 alone
Sizes == 0..MaxSize
Intervals == {2, 3}
Values == {1, 2}
Times == 0..MaxTime
StartTimes == {0, 1}

VARIABLES
    status,         \* "none" before NewRollingWindow, then "ok" or "panicked"
    args,           \* the arguments NewRollingWindow is called with
    size, interval, ignoreCurrent, offset, lastTime,   \* RollingWindow fields
    buckets,        \* win.buckets: 0..size-1 -> [Sum, Count]
    clock,          \* the value timex.Now() returns
    writer,         \* the caller that holds rw.lock.w (Lock pending or held), or 0
    readers,        \* the callers that hold rw.lock shared
    pc,             \* each caller's position
    val,            \* Add's argument v
    span,           \* the local span of updateOffset and of Reduce
    tmp,            \* the bucket value Bucket.add has loaded
    now,            \* the clock value span() read in the caller's Reduce
    began,          \* history: the clock value when the caller's Add began
    visited,        \* the bucket indices win.reduce has passed to fn, in order
    acc,            \* the totals the visitor fn has summed: [Sum, Count]
    adds,           \* history: the number of Add calls begun
    tracing,        \* whether log and items are kept in this behaviour
    epoch,          \* history: lastTime at construction
    log,            \* history: bag of <<t, v>>, one per completed bucket write
    items,          \* history: per bucket, the bag of <<t, v>> it holds
    everReset,      \* history: updateOffset has reset a bucket
    pre             \* history: offset, lastTime and buckets as the running Add found them

win == <<size, interval, ignoreCurrent, offset, lastTime, buckets>>
locals == <<val, span, tmp, now, visited, acc, began>>
history == <<adds, tracing, epoch, log, items, everReset, pre>>
lockv == <<writer, readers>>
time == <<clock>>
vars == <<status, args, win, time, lockv, pc, locals, history>>

\* ------------------------------------------------------- Go integer arithmetic
Abs(x) == IF x < 0 THEN -x ELSE x

\* Go's integer division truncates toward zero (b # 0).
Quot(a, b) ==
    IF (a >= 0) = (b > 0) THEN Abs(a) \div Abs(b) ELSE -(Abs(a) \div Abs(b))

\* Go's % : the remainder of the truncated division, with the dividend's sign.
Rem(a, b) == a - b * Quot(a, b)

\* ------------------------------------------------------------------ Bucket
EmptyBucket == [Sum |-> 0, Count |-> 0]

\* A Bucket.add that adds the value and does not count it.
BucketAddUncounted(b, v) == [Sum |-> b.Sum + v, Count |-> b.Count]

\* Bucket.add(v)
BucketAdd(b, v) == [Sum |-> b.Sum + v, Count |-> b.Count + 1]

\* newWindow(size)
NewWindow(n) == [i \in 0..(n - 1) |-> EmptyBucket]

\* ------------------------------------------------------------ RollingWindow
\* A span() that clamps only from above: a negative quotient is returned.
SpanOfNoLowerClamp(t) ==
    LET o == Quot(t - lastTime, interval)
    IN  IF o < size THEN o ELSE size

\* span(): whole intervals since lastTime at clock value t, clamped to size.
SpanOf(t) ==
    LET o == Quot(t - lastTime, interval)
    IN  IF 0 <= o /\ o < size THEN o ELSE size

\* A reset loop that starts at the bucket at offset and not at the one after.
ResetIndicesFromOffset(off, sp) == {Rem(off + i, size) : i \in 0..(sp - 1)}

\* The indices updateOffset resets: (offset + i + 1) % size for 0 <= i < span.
ResetIndices(off, sp) == {Rem(off + i + 1, size) : i \in 0..(sp - 1)}

\* A cursor advance that does not wrap around the ring.
NextOffsetNoWrap(off, sp) == off + sp

\* rw.offset = (offset + span) % rw.size
NextOffset(off, sp) == Rem(off + sp, size)

\* A realignment that takes the clock value itself, keeping the remainder.
RealignToNow(t, last) == t

\* rw.lastTime = now - (now-rw.lastTime)%rw.interval
Realign(t, last) == t - Rem(t - last, interval)

\* A diff that forgets the ignoreCurrent option.
ValidCountNoIgnore(sp) == size - sp

\* A diff that leaves the current bucket out whenever the option is set.
ValidCountAlwaysIgnore(sp) == IF ignoreCurrent THEN size - 1 - sp ELSE size - sp

\* Reduce's diff: the number of buckets to visit.
ValidCount(sp) ==
    IF sp = 0 /\ ignoreCurrent THEN size - 1 ELSE size - sp

\* Reduce's start index: (rw.offset + span + 1) % rw.size
StartIndex(sp) == Rem(offset + sp + 1, size)

\* A win.reduce that walks the range from its newest bucket back to its oldest.
ReduceIndicesBackward(start, count) ==
    [i \in 1..(IF count > 0 THEN count ELSE 0) |-> Rem(start + count - i, size)]

\* win.reduce(start, count, fn): the indices passed to fn, in order.
ReduceIndices(start, count) ==
    [i \in 1..(IF count > 0 THEN count ELSE 0) |-> Rem(start + i - 1, size)]

RECURSIVE SumOver(_, _)
\* The visitor used by the callers: it totals Sum and Count of what it is given.
SumOver(idx, f) ==
    IF idx = <<>> THEN EmptyBucket
    ELSE LET r == SumOver(Tail(idx), f)
             b == f[Head(idx)]
         IN  [Sum |-> r.Sum + b.Sum, Count |-> r.Count + b.Count]

\* ------------------------------------------------------------------- locals
NoLocal(p) ==
    /\ val' = [val EXCEPT ![p] = 0]
    /\ span' = [span EXCEPT ![p] = 0]
    /\ tmp' = [tmp EXCEPT ![p] = EmptyBucket]
    /\ now' = [now EXCEPT ![p] = 0]
    /\ visited' = [visited EXCEPT ![p] = <<>>]
    /\ acc' = [acc EXCEPT ![p] = EmptyBucket]
    /\ began' = [began EXCEPT ![p] = 0]

AddPcs == {"a_span", "a_reset", "a_advance", "a_load", "a_store", "a_unlock", "a_panic"}
ReducePcs == {"r_span", "r_visit", "r_unlock", "r_panic"}

\* The window as an Add finds it when it computes span, and the value kept
\* while no Add is running.
Snapshot == [offset |-> offset, lastTime |-> lastTime, buckets |-> buckets]
NoSnapshot == [offset |-> 0, lastTime |-> 0, buckets |-> <<>>]

\* What AddStore appends to the histories log and items: the Add ran from
\* clock value began[p] to the present one and added val[p].
Entry(p) == IF tracing THEN SetToBag({<<began[p], clock, val[p]>>}) ELSE EmptyBag

\* ---------------------------------------------------------------- sync.RWMutex
\* A Lock() that does not wait for the active readers to leave.
AfterLockWNoWait == "a_span"

\* Lock(): take rw.w, announce the writer, then wait for the active readers.
AfterLockW == IF readers = {} THEN "a_span" ELSE "a_wait"

\* An RLock() that gives way to a running writer only, not to one that waits
\* for the readers to leave.
CanRLockPastWaiter == \A q \in Procs : pc[q] \notin AddPcs

\* RLock() succeeds at once unless a writer is pending or active.
CanRLock == writer = 0

\* ------------------------------------------------------------------ actions
\* A constructor without the size check.
NewUnchecked ==
    /\ status = "none"
    /\ status' = "ok"
    /\ size' = args.size
    /\ buckets' = [i \in 0..(args.size - 1) |-> [Sum |-> 0, Count |-> 0]]
    /\ interval' = args.interval
    /\ lastTime' = clock
    /\ offset' = 0
    /\ ignoreCurrent' = args.ignore
    /\ epoch' = clock
    /\ items' = [i \in 0..(args.size - 1) |-> EmptyBag]
    /\ UNCHANGED <<args, time, lockv, pc, locals, adds, tracing, log, everReset, pre>>

\* NewRollingWindow(size, interval, opts...)
New ==
    /\ status = "none"
    /\ IF args.size < 1
       THEN /\ status' = "panicked"
            /\ UNCHANGED <<win, epoch, items>>
       ELSE /\ status' = "ok"
            /\ size' = args.size
            /\ buckets' = NewWindow(args.size)
            /\ interval' = args.interval
            /\ lastTime' = clock
            /\ offset' = 0
            /\ ignoreCurrent' = args.ignore
            /\ epoch' = clock
            /\ items' = [i \in 0..(args.size - 1) |-> EmptyBag]
    /\ UNCHANGED <<args, time, lockv, pc, locals, adds, tracing, log, everReset, pre>>

\* timex.Now() moves forward.
Tick ==
    /\ status # "none"
    /\ clock < MaxTime
    /\ clock' = clock + 1
    /\ UNCHANGED <<status, args, win, lockv, pc, locals, history>>

\* timex.Now() reports an earlier value than before.
TickBack ==
    /\ status # "none"
    /\ \E t \in Times : t < clock /\ clock' = t
    /\ UNCHANGED <<status, args, win, lockv, pc, locals, history>>

\* Add(v): rw.lock.Lock()
AddCall(p, v) ==
    /\ status = "ok"
    /\ pc[p] = "idle"
    /\ adds < MaxAdds
    /\ adds' = adds + 1
    /\ val' = [val EXCEPT ![p] = v]
    /\ began' = [began EXCEPT ![p] = IF tracing THEN clock ELSE 0]
    /\ IF writer = 0
       THEN /\ writer' = p
            /\ pc' = [pc EXCEPT ![p] = AfterLockW]
       ELSE /\ pc' = [pc EXCEPT ![p] = "a_lock"]
            /\ UNCHANGED writer
    /\ UNCHANGED <<status, args, win, time, readers, span, tmp, now, visited, acc,
                   tracing, epoch, log, items, everReset, pre>>

\* A caller blocked in Lock() on rw.w obtains it.
AddLockW(p) ==
    /\ pc[p] = "a_lock"
    /\ writer = 0
    /\ writer' = p
    /\ pc' = [pc EXCEPT ![p] = AfterLockW]
    /\ UNCHANGED <<status, args, win, time, readers, locals, history>>

\* updateOffset: span := rw.span()
AddSpan(p) ==
    /\ pc[p] = "a_span"
    /\ IF interval = 0
       THEN /\ pc' = [pc EXCEPT ![p] = "a_panic"]
            /\ UNCHANGED <<span, pre>>
       ELSE /\ span' = [span EXCEPT ![p] = SpanOf(clock)]
            /\ pc' = [pc EXCEPT ![p] = IF SpanOf(clock) <= 0 THEN "a_load" ELSE "a_reset"]
            /\ pre' = Snapshot
    /\ UNCHANGED <<status, args, win, time, lockv, val, tmp, now, visited, acc, began,
                   adds, tracing, epoch, log, items, everReset>>

\* updateOffset: the loop that resets the expired buckets
AddReset(p) ==
    /\ pc[p] = "a_reset"
    /\ buckets' = [i \in DOMAIN buckets |->
                     IF i \in ResetIndices(offset, span[p]) THEN EmptyBucket ELSE buckets[i]]
    /\ items' = [i \in DOMAIN items |->
                     IF i \in ResetIndices(offset, span[p]) THEN EmptyBag ELSE items[i]]
    /\ everReset' = TRUE
    /\ pc' = [pc EXCEPT ![p] = "a_advance"]
    /\ UNCHANGED <<status, args, size, interval, ignoreCurrent, offset, lastTime,
                   time, lockv, locals, adds, tracing, epoch, log, pre>>

\* updateOffset: the new offset, the second clock read, the realigned lastTime
AddAdvance(p) ==
    /\ pc[p] = "a_advance"
    /\ offset' = NextOffset(offset, span[p])
    /\ lastTime' = Realign(clock, lastTime)
    /\ pc' = [pc EXCEPT ![p] = "a_load"]
    /\ UNCHANGED <<status, args, size, interval, ignoreCurrent, buckets,
                   time, lockv, locals, history>>

\* rw.win.add(rw.offset, v): Bucket.add loads the bucket ...
AddLoad(p) ==
    /\ pc[p] = "a_load"
    /\ tmp' = [tmp EXCEPT ![p] = buckets[Rem(offset, size)]]
    /\ pc' = [pc EXCEPT ![p] = "a_store"]
    /\ UNCHANGED <<status, args, win, time, lockv, val, span, now, visited, acc, began, history>>

\* ... and stores Sum + v, Count + 1
AddStore(p) ==
    /\ pc[p] = "a_store"
    /\ buckets' = [buckets EXCEPT ![Rem(offset, size)] = BucketAdd(tmp[p], val[p])]
    /\ log' = log (+) Entry(p)
    /\ items' = [items EXCEPT ![Rem(offset, size)] = @ (+) Entry(p)]
    /\ pc' = [pc EXCEPT ![p] = "a_unlock"]
    /\ UNCHANGED <<status, args, size, interval, ignoreCurrent, offset, lastTime,
                   time, lockv, locals, adds, tracing, epoch, everReset, pre>>

\* defer rw.lock.Unlock(): the readers blocked meanwhile are admitted
AddUnlock(p) ==
    /\ pc[p] \in {"a_unlock", "a_panic"}
    /\ writer' = 0
    /\ readers' = readers \cup {q \in Procs : pc[q] = "r_wait"}
    /\ pc' = [q \in Procs |->
                IF q = p THEN (IF pc[p] = "a_panic" THEN "failed" ELSE "idle")
                ELSE IF pc[q] = "r_wait" THEN "r_span" ELSE pc[q]]
    /\ NoLocal(p)
    /\ pre' = NoSnapshot
    /\ UNCHANGED <<status, args, win, time, adds, tracing, epoch, log, items, everReset>>

\* Reduce(fn): rw.lock.RLock()
ReduceCall(p) ==
    /\ status = "ok"
    /\ pc[p] = "idle"
    /\ IF CanRLock
       THEN /\ readers' = readers \cup {p}
            /\ pc' = [pc EXCEPT ![p] = "r_span"]
       ELSE /\ pc' = [pc EXCEPT ![p] = "r_wait"]
            /\ UNCHANGED readers
    /\ UNCHANGED <<status, args, win, time, writer, locals, history>>

\* Reduce: span := rw.span()
ReduceSpan(p) ==
    /\ pc[p] = "r_span"
    /\ IF interval = 0
       THEN /\ pc' = [pc EXCEPT ![p] = "r_panic"]
            /\ UNCHANGED <<span, now>>
       ELSE /\ span' = [span EXCEPT ![p] = SpanOf(clock)]
            /\ now' = [now EXCEPT ![p] = clock]
            /\ pc' = [pc EXCEPT ![p] = "r_visit"]
    /\ UNCHANGED <<status, args, win, time, lockv, val, tmp, visited, acc, began, history>>

\* A Reduce that advances the cursor itself, resetting the stale buckets.
ReduceVisitAdvancing(p) ==
    /\ pc[p] = "r_visit"
    /\ LET idx == ReduceIndices(StartIndex(span[p]), ValidCount(span[p]))
       IN  /\ visited' = [visited EXCEPT ![p] = idx]
           /\ acc' = [acc EXCEPT ![p] = SumOver(idx, buckets)]
    /\ buckets' = [i \in DOMAIN buckets |->
                     IF i \in ResetIndices(offset, span[p]) THEN EmptyBucket ELSE buckets[i]]
    /\ offset' = NextOffset(offset, span[p])
    /\ pc' = [pc EXCEPT ![p] = "r_unlock"]
    /\ UNCHANGED <<status, args, size, interval, ignoreCurrent, lastTime, time, lockv,
                   val, span, tmp, now, began, history>>

\* Reduce: diff, the start index and rw.win.reduce(offset, diff, fn)
ReduceVisit(p) ==
    /\ pc[p] = "r_visit"
    /\ LET idx == ReduceIndices(StartIndex(span[p]), ValidCount(span[p]))
       IN  /\ visited' = [visited EXCEPT ![p] = idx]
           /\ acc' = [acc EXCEPT ![p] = SumOver(idx, buckets)]
    /\ pc' = [pc EXCEPT ![p] = "r_unlock"]
    /\ UNCHANGED <<status, args, win, time, lockv, val, span, tmp, now, began, history>>

\* defer rw.lock.RUnlock(): the last reader to leave wakes the pending writer
ReduceRUnlock(p) ==
    /\ pc[p] \in {"r_unlock", "r_panic"}
    /\ readers' = readers \ {p}
    /\ pc' = [q \in Procs |->
                IF q = p THEN (IF pc[p] = "r_panic" THEN "failed" ELSE "idle")
                ELSE IF pc[q] = "a_wait" /\ readers \ {p} = {} THEN "a_span" ELSE pc[q]]
    /\ NoLocal(p)
    /\ UNCHANGED <<status, args, win, time, writer, history>>

\* ------------------------------------------------------------ specifications
InitWith(callers, trace) ==
    /\ status = "none"
    /\ args \in [size : Sizes, interval : Intervals, ignore : BOOLEAN]
    /\ size = 0 /\ interval = 0 /\ ignoreCurrent = FALSE /\ offset = 0 /\ lastTime = 0
    /\ buckets = NewWindow(0)
    /\ clock \in StartTimes
    /\ writer = 0 /\ readers = {}
    /\ pc = [p \in Procs |-> IF p \in callers THEN "idle" ELSE "off"]
    /\ val = [p \in Procs |-> 0]
    /\ span = [p \in Procs |-> 0]
    /\ tmp = [p \in Procs |-> EmptyBucket]
    /\ now = [p \in Procs |-> 0]
    /\ began = [p \in Procs |-> 0]
    /\ visited = [p \in Procs |-> <<>>]
    /\ acc = [p \in Procs |-> EmptyBucket]
    /\ adds = 0
    /\ tracing = trace
    /\ epoch = 0
    /\ log = EmptyBag
    /\ items = <<>>
    /\ everReset = FALSE
    /\ pre = NoSnapshot

Step(p) ==
    \/ \E v \in Values : AddCall(p, v)
    \/ AddLockW(p)
    \/ AddSpan(p)
    \/ AddReset(p)
    \/ AddAdvance(p)
    \/ AddLoad(p)
    \/ AddStore(p)
    \/ AddUnlock(p)
    \/ ReduceCall(p)
    \/ ReduceSpan(p)
    \/ ReduceVisit(p)
    \/ ReduceRUnlock(p)

\* One caller; the clock may report any value.
Init == InitWith({1}, FALSE)

Next ==
    \/ New
    \/ Tick
    \/ TickBack
    \/ \E v \in Values : AddCall(1, v)
    \/ AddSpan(1)
    \/ AddReset(1)
    \/ AddAdvance(1)
    \/ AddLoad(1)
    \/ AddStore(1)
    \/ AddUnlock(1)
    \/ ReduceCall(1)
    \/ ReduceSpan(1)
    \/ ReduceVisit(1)
    \/ ReduceRUnlock(1)

Spec == Init /\ [][Next]_vars

\* One caller; the clock never regresses.
NextMono ==
    \/ New
    \/ Tick
    \/ \E v \in Values : AddCall(1, v)
    \/ AddSpan(1)
    \/ AddReset(1)
    \/ AddAdvance(1)
    \/ AddLoad(1)
    \/ AddStore(1)
    \/ AddUnlock(1)
    \/ ReduceCall(1)
    \/ ReduceSpan(1)
    \/ ReduceVisit(1)
    \/ ReduceRUnlock(1)

InitMono == InitWith({1}, TRUE)

SpecMono == InitMono /\ [][NextMono]_vars

\* Callers 1 and 2 run concurrently; the clock never regresses.
InitConc == InitWith({1, 2}, FALSE)

NextConc ==
    \/ New
    \/ Tick
    \/ \E p \in Procs : Step(p)

SpecConc == InitConc /\ [][NextConc]_vars

\* The steps of a caller that wait for nobody: everything it does from the
\* moment it holds the lock to the moment it has released it.
Running(p) ==
    \/ AddSpan(p)
    \/ AddReset(p)
    \/ AddAdvance(p)
    \/ AddLoad(p)
    \/ AddStore(p)
    \/ AddUnlock(p)
    \/ ReduceSpan(p)
    \/ ReduceVisit(p)
    \/ ReduceRUnlock(p)

\* Fair scheduling: a goroutine that can run does run, and a goroutine blocked
\* on rw.w obtains it when it is free again and again (sync.Mutex hands the
\* lock to a starving waiter).
Fairness ==
    \A p \in Procs : WF_vars(Running(p)) /\ SF_vars(AddLockW(p))

\* All the callers of Procs run concurrently under fair scheduling, on a
\* window of one bucket constructed two clock values before the last one.
InitLive ==
    /\ status = "none"
    /\ args = [size |-> 1, interval |-> 2, ignore |-> FALSE]
    /\ size = 0 /\ interval = 0 /\ ignoreCurrent = FALSE /\ offset = 0 /\ lastTime = 0
    /\ buckets = NewWindow(0)
    /\ clock = MaxTime - 2
    /\ writer = 0 /\ readers = {}
    /\ pc = [p \in Procs |-> "idle"]
    /\ val = [p \in Procs |-> 0]
    /\ span = [p \in Procs |-> 0]
    /\ tmp = [p \in Procs |-> EmptyBucket]
    /\ now = [p \in Procs |-> 0]
    /\ began = [p \in Procs |-> 0]
    /\ visited = [p \in Procs |-> <<>>]
    /\ acc = [p \in Procs |-> EmptyBucket]
    /\ adds = 0
    /\ tracing = FALSE
    /\ epoch = 0
    /\ log = EmptyBag
    /\ items = <<>>
    /\ everReset = FALSE
    /\ pre = NoSnapshot

SpecLive == InitLive /\ [][NextConc]_vars /\ Fairness

\* One caller on a window of any interval NewRollingWindow accepts: positive,
\* zero or negative.
AnyIntervals == {-2, 0, 2}

InitAny ==
    /\ status = "none"
    /\ args \in [size : Sizes, interval : AnyIntervals, ignore : BOOLEAN]
    /\ size = 0 /\ interval = 0 /\ ignoreCurrent = FALSE /\ offset = 0 /\ lastTime = 0
    /\ buckets = NewWindow(0)
    /\ clock \in StartTimes
    /\ writer = 0 /\ readers = {}
    /\ pc = [p \in Procs |-> IF p = 1 THEN "idle" ELSE "off"]
    /\ val = [p \in Procs |-> 0]
    /\ span = [p \in Procs |-> 0]
    /\ tmp = [p \in Procs |-> EmptyBucket]
    /\ now = [p \in Procs |-> 0]
    /\ began = [p \in Procs |-> 0]
    /\ visited = [p \in Procs |-> <<>>]
    /\ acc = [p \in Procs |-> EmptyBucket]
    /\ adds = 0
    /\ tracing = FALSE
    /\ epoch = 0
    /\ log = EmptyBag
    /\ items = <<>>
    /\ everReset = FALSE
    /\ pre = NoSnapshot

SpecAny == InitAny /\ [][NextMono]_vars

\* ---------------------------------------------------------------- reference
\* slice(t) = floor((t - t0) / interval), t0 being lastTime at construction.
Slice(t) == (t - epoch) \div interval

\* Slice s lies in the window of the Reduce made at clock value t.
InWindow(s, t) == Slice(t) - size < s /\ s <= Slice(t)

RECURSIVE Total(_, _)
\* Sum and number of the values of bag B whose entries are in set S.
Total(S, B) ==
    IF S = {} THEN EmptyBucket
    ELSE LET e == CHOOSE x \in S : TRUE
             r == Total(S \ {e}, B)
         IN  [Sum |-> r.Sum + CopiesIn(e, B) * e[3], Count |-> r.Count + CopiesIn(e, B)]

BagTotal(B) == Total(BagToSet(B), B)

\* The logged Adds whose every instant lies in the window of a Reduce at t,
\* and those with at least one instant in it.
Surely(t) ==
    {e \in BagToSet(log) : InWindow(Slice(e[1]), t) /\ InWindow(Slice(e[2]), t)}
Maybe(t) ==
    {e \in BagToSet(log) :
        /\ Slice(e[1]) <= Slice(t) /\ Slice(t) - size < Slice(e[2])
        /\ e \notin Surely(t)}

Restrict(S) == [e \in S |-> CopiesIn(e, log)]

\* The totals a full timestamped log can give for a Reduce at t: each logged
\* Add counts at some instant between its first and its last clock value.
References(t) ==
    {[Sum |-> BagTotal(Restrict(Surely(t))).Sum + BagTotal(B).Sum,
      Count |-> BagTotal(Restrict(Surely(t))).Count + BagTotal(B).Count] :
        B \in SubBag(Restrict(Maybe(t)))}

\* A Reduce of caller p has run its visitor and not yet returned.
Reduced(p) == pc[p] = "r_unlock"

Visited(p) == {visited[p][i] : i \in DOMAIN visited[p]}

\* C2: with a non-regressing clock, no value contributes to a Reduce that runs
\* size x interval or more after the Add that recorded it; and a Reduce made
\* when at least size whole intervals have elapsed since lastTime invokes the
\* visitor zero times.
C2_ValuesExpire ==
    \A p \in Procs :
        (Reduced(p) /\ interval > 0) =>
            /\ \A i \in Visited(p) : \A e \in BagToSet(items[i]) :
                   now[p] - e[2] < size * interval
            /\ (now[p] - lastTime >= size * interval => visited[p] = <<>>)

\* C3: a Reduce invokes the visitor exactly size - span times, except exactly
\* size - 1 times when span = 0 and ignoreCurrent is set, span being what
\* span() returned to it; so the number of visits is in [0, size].
C3_VisitCount ==
    \A p \in Procs :
        Reduced(p) =>
            /\ Len(visited[p]) = IF span[p] = 0 /\ ignoreCurrent
                                 THEN size - 1 ELSE size - span[p]
            /\ 0 <= Len(visited[p]) /\ Len(visited[p]) <= size

C3_Witness ==
    /\ Reduced(1) /\ ignoreCurrent /\ span[1] = 0
    /\ size = 2 /\ Len(visited[1]) = 1 /\ everReset

\* C4 as stated: Reduce visits exactly size buckets only when no Add has ever
\* reset a bucket and ignoreCurrent is false.
C4_SizeOnlyIfNeverReset ==
    \A p \in Procs :
        (Reduced(p) /\ Len(visited[p]) = size) => (~everReset /\ ~ignoreCurrent)

\* C4 as amended: Reduce visits exactly size buckets only when span() returns 0
\* to it (no bucket is stale at that moment, whatever earlier Adds have reset)
\* and ignoreCurrent is false.
C4_SizeOnlyIfSpanZero ==
    \A p \in Procs :
        (Reduced(p) /\ Len(visited[p]) = size) => (span[p] = 0 /\ ~ignoreCurrent)

C4_Witness ==
    Reduced(1) /\ Len(visited[1]) = size /\ everReset /\ size = 2

\* C5: offset is in [0, size) in every state of a constructed window, for any
\* size >= 1 and any clock value, also one earlier than lastTime.
C5_OffsetInRange ==
    status = "ok" => (0 <= offset /\ offset < size)

C5_Witness ==
    status = "ok" /\ size = 2 /\ offset = 1 /\ clock < lastTime /\ pc[1] = "a_unlock"

\* C6: lastTime differs from the lastTime set at construction by an exact
\* integer multiple of interval.
C6_NoDrift ==
    status = "ok" => \E k \in (-MaxTime)..MaxTime : lastTime - epoch = k * interval

C6_Witness ==
    /\ status = "ok" /\ pc[1] = "a_load" /\ span[1] > 0
    /\ lastTime # epoch /\ lastTime # clock

\* C7: immediately after every cursor advance of Add, lastTime <= now and
\* now - lastTime < interval, now being the clock value the advance used, also
\* when now is earlier than the previous lastTime.
C7_LastBoundaryAtOrBeforeNow ==
    [][\A p \in Procs :
          (pc[p] = "a_advance" /\ pc'[p] = "a_load") =>
              (lastTime' <= clock /\ clock - lastTime' < interval)]_vars

\* Caller p takes a step of a Reduce call.
ReduceStep(p) ==
    /\ pc'[p] # pc[p]
    /\ pc[p] \in ReducePcs \/ pc'[p] \in ReducePcs

\* C8: every step of a Reduce, whose visitor only reads, leaves offset,
\* lastTime and every bucket's Sum and Count unchanged, however much time has
\* elapsed: stale buckets are skipped, not reset.
C8_ReduceReadOnly ==
    [][\A p \in Procs : ReduceStep(p) => UNCHANGED <<offset, lastTime, buckets>>]_vars

C8_Witness ==
    /\ Reduced(1) /\ 0 < span[1] /\ span[1] < size
    /\ \E i \in ResetIndices(offset, span[1]) : buckets[i].Count > 0

\* The Add calls that have not yet written their value.
AddsPending ==
    Cardinality({p \in Procs : pc[p] \in {"a_lock", "a_wait", "a_span", "a_reset",
                                          "a_advance", "a_load", "a_store"}})

\* C9: an Add never executes its body while another Add or a Reduce executes
\* its body, so a Reduce never sees the window between the bucket resets and
\* the offset/lastTime update, and k Adds in one slice raise the current
\* bucket's Count by exactly k.
C9_AddExcludesAll ==
    /\ \A p, q \in Procs :
           (p # q /\ pc[p] \in AddPcs) => pc[q] \notin (AddPcs \cup ReducePcs)
    /\ (status = "ok" /\ ~everReset) => buckets[offset].Count = adds - AddsPending

C9_Witness ==
    pc[1] = "a_store" /\ pc[2] = "a_lock" /\ ~everReset

\* Several Reduce calls execute their bodies at once.
C9_ReadersShare ==
    pc[1] = "r_visit" /\ pc[2] = "r_unlock"

\* C10: construction with size < 1 fails fatally and leaves no window for Add
\* or Reduce; construction with size >= 1 yields size empty buckets, offset 0,
\* lastTime equal to the clock value, and ignoreCurrent set only if the
\* IgnoreCurrentBucket option was passed.
C10_Construction ==
    [][/\ (status = "none" /\ status' # "none") =>
             IF args.size < 1
             THEN status' = "panicked"
             ELSE /\ status' = "ok"
                  /\ size' = args.size
                  /\ interval' = args.interval
                  /\ DOMAIN buckets' = 0..(args.size - 1)
                  /\ \A i \in DOMAIN buckets' : buckets'[i] = [Sum |-> 0, Count |-> 0]
                  /\ offset' = 0
                  /\ lastTime' = clock
                  /\ ignoreCurrent' = args.ignore
       /\ status' # "ok" => \A p \in Procs : pc'[p] \in {"idle", "off"}]_vars

C10_Witness ==
    status = "panicked" /\ args.size = 0 /\ clock > 0

\* Caller p takes the step that calls span(), in Add or in Reduce.
SpanStep(p) == pc[p] \in {"a_span", "r_span"} /\ pc'[p] # pc[p]

\* C11: whenever the clock reports a value earlier than lastTime, by any
\* amount, span() returns size (so the next Add resets every bucket and a
\* Reduce at that clock value visits no bucket).
C11_BackwardClockClamps ==
    [][\A p \in Procs :
          (SpanStep(p) /\ interval > 0 /\ clock < lastTime) => span'[p] = size]_vars

\* The set of the elements of sequence q.
Range(q) == {q[i] : i \in DOMAIN q}

\* C12: for interval > 0 and every clock value, also one earlier than
\* lastTime, every bucket index Add and Reduce compute lies in [0, size): the
\* reset indices, the write index and the Reduce indices.
C12_IndicesInRing ==
    (status = "ok" /\ interval > 0) =>
        \A p \in Procs :
            /\ pc[p] = "a_reset" => ResetIndices(offset, span[p]) \subseteq 0..(size - 1)
            /\ pc[p] \in {"a_load", "a_store"} => Rem(offset, size) \in 0..(size - 1)
            /\ pc[p] = "r_visit" =>
                   Range(ReduceIndices(StartIndex(span[p]), ValidCount(span[p])))
                       \subseteq 0..(size - 1)
            /\ Range(visited[p]) \subseteq 0..(size - 1)

C12_Witness ==
    /\ pc[1] = "a_reset" /\ clock < lastTime /\ span[1] = size
    /\ size = 2 /\ offset = 1

\* The totals of every bucket of the ring but bucket i.
TotalBut(i) ==
    LET others == {j \in DOMAIN buckets : j # i}
        idx == CHOOSE q \in [1..Cardinality(others) -> others] : Range(q) = others
    IN  SumOver(idx, buckets)

\* C13: with IgnoreCurrentBucket set, a Reduce made at span = 0 never passes
\* the bucket at offset to the visitor, so the values of the in-progress slice
\* are not counted (with size = 1 nothing is visited); at 0 < span < size the
\* bucket at offset is visited exactly as without the option.
C13_IgnoreCurrent ==
    \A p \in Procs :
        (Reduced(p) /\ ignoreCurrent /\ interval > 0) =>
            /\ span[p] = 0 =>
                   /\ offset \notin Visited(p)
                   /\ acc[p] = TotalBut(offset)
                   /\ size = 1 => visited[p] = <<>>
            /\ (0 < span[p] /\ span[p] < size) =>
                   /\ visited[p] = [i \in 1..(size - span[p]) |->
                                       (offset + span[p] + i) % size]
                   /\ visited[p][Len(visited[p])] = offset

C13_Witness ==
    /\ Reduced(1) /\ ignoreCurrent /\ span[1] = 0 /\ size = 2
    /\ buckets[offset].Count > 0 /\ acc[1].Count = 0

\* How many slices bucket i lies behind the bucket at offset in the ring.
Age(i) == (offset - i) % size

\* C14: within one Reduce the visitor is invoked on pairwise distinct buckets,
\* oldest to newest: each visited bucket is one slice later than the one
\* before it, and the bucket at offset, when visited, is visited last.
C14_OldestToNewest ==
    \A p \in Procs :
        Reduced(p) =>
            /\ \A i, j \in DOMAIN visited[p] : i # j => visited[p][i] # visited[p][j]
            /\ \A i, j \in DOMAIN visited[p] :
                   i < j => Age(visited[p][i]) > Age(visited[p][j])
            /\ offset \in Visited(p) => visited[p][Len(visited[p])] = offset

C14_Witness ==
    Reduced(1) /\ visited[1] = <<1, 0>> /\ everReset

\* Whether some Add is between its reset loop and its realignment of lastTime.
Updating == \E p \in Procs : pc[p] \in {"a_reset", "a_advance"}

\* C15: with a non-regressing clock, whenever no Add is halfway through
\* updateOffset, the bucket j positions behind offset (0 <= j < size) holds
\* only values of Adds that ran at some instant of the slice
\* [lastTime - j * interval, lastTime - (j - 1) * interval).
C15_BucketsLabelSlices ==
    (status = "ok" /\ tracing /\ ~Updating) =>
        \A j \in 0..(size - 1) :
            \A e \in BagToSet(items[(offset - j) % size]) :
                /\ e[1] < lastTime - (j - 1) * interval
                /\ e[2] >= lastTime - j * interval

\* The caller's Add has written its value and still holds the lock.
Added(p) == pc[p] = "a_unlock"

\* Sum and Count totalled over every bucket of the ring.
RingTotal ==
    LET idx == CHOOSE q \in [1..size -> DOMAIN buckets] : Range(q) = DOMAIN buckets
    IN  SumOver(idx, buckets)

\* C16: an Add(v) whose span is 0 leaves offset and lastTime as it found them
\* and changes one bucket only, the one at offset: Sum grows by v, Count by 1.
C16_AddInPlace ==
    \A p \in Procs :
        (Added(p) /\ span[p] = 0) =>
            /\ offset = pre.offset
            /\ lastTime = pre.lastTime
            /\ DOMAIN buckets = DOMAIN pre.buckets
            /\ \A i \in DOMAIN buckets :
                   buckets[i] = IF i = offset
                                THEN [Sum |-> pre.buckets[i].Sum + val[p],
                                      Count |-> pre.buckets[i].Count + 1]
                                ELSE pre.buckets[i]

C16_Witness ==
    /\ Added(1) /\ span[1] = 0 /\ size = 2 /\ offset = 1
    /\ buckets[1].Count = 2 /\ buckets[0].Count = 0 /\ clock > lastTime

\* C17: an Add(v) whose span is k > 0 moves offset to (offset + k) % size,
\* resets exactly the buckets (offset + i + 1) % size for 0 <= i < k and then
\* writes v: the new current bucket holds Sum = v, Count = 1, the other reset
\* buckets are empty, the rest are as they were. With k = size offset keeps
\* its value and the whole ring totals Sum = v, Count = 1.
C17_AddAdvances ==
    \A p \in Procs :
        (Added(p) /\ span[p] > 0) =>
            LET k == span[p]
                expired == {(pre.offset + i + 1) % size : i \in 0..(k - 1)}
            IN  /\ offset = (pre.offset + k) % size
                /\ DOMAIN buckets = DOMAIN pre.buckets
                /\ \A i \in DOMAIN buckets :
                       buckets[i] = IF i = offset THEN [Sum |-> val[p], Count |-> 1]
                                    ELSE IF i \in expired THEN EmptyBucket
                                    ELSE pre.buckets[i]
                /\ k = size =>
                       /\ offset = pre.offset
                       /\ RingTotal = [Sum |-> val[p], Count |-> 1]

\* An Add that advanced by one bucket and left behind a bucket holding a value.
C17_Witness ==
    /\ Added(1) /\ span[1] = 1 /\ size = 2 /\ offset # pre.offset
    /\ pre.buckets[pre.offset].Count > 0
    /\ buckets[pre.offset] = pre.buckets[pre.offset]

\* An Add that found the whole window stale.
C17_WitnessStale ==
    /\ Added(1) /\ span[1] = size /\ size = 2
    /\ pre.buckets[pre.offset].Count > 0 /\ RingTotal.Count = 1

\* The caller is inside Add or Reduce.
Started(p) == pc[p] \notin {"idle", "off", "failed"}

\* C18: under fair scheduling every Add and every Reduce that is started
\* completes, whatever the other callers do, and a caller that has completed
\* holds the lock no longer.
C18_EveryCallCompletes ==
    /\ \A p \in Procs : Started(p) ~> (pc[p] = "idle")
    /\ [](\A p \in Procs : pc[p] = "idle" => (writer # p /\ p \notin readers))

\* An Add waits for a reader to leave while a later Reduce waits behind it.
C18_Witness ==
    pc[1] = "a_wait" /\ pc[2] \in ReducePcs /\ pc[3] = "r_wait"

\* C19: on a window the constructor returned, whatever its interval, no Add
\* and no Reduce ends in a runtime failure.
C19_OnlySizeFails ==
    \A p \in Procs : pc[p] \notin {"a_panic", "r_panic", "failed"}

====
